---- MODULE Spec2Model ----
(***************************************************************************)
(* A model of nom-sql's reserved-keyword matcher (src/src/keywords.rs) and *)
(* CREATE TABLE grammar (src/src/create.rs).  Every parser is a function   *)
(* from (input, position) to a parse outcome; the state machine calls one  *)
(* entry point on one input and returns.                                   *)
(*                                                                         *)
(* An input is a string; a parser sees it as the sequence of its bytes     *)
(* (one-character strings) s and a position p, the index of the next byte, *)
(* so that the remaining input is s[p..Len(s)].  An outcome is a record    *)
(* [t, p, v]: t is "Done" (p the position after the match, v the value),   *)
(* "Error", "Incomplete", or "Panic" (the process aborts: panic!/assert!). *)
(* The byte count carried by Incomplete and the position and kind carried  *)
(* by Error are not modelled.                                              *)
(***************************************************************************)
EXTENDS Integers, Sequences, FiniteSets, TLC

VARIABLES nom, pc, parser, arg, input, res

vars == <<nom, pc, parser, arg, input, res>>

-----------------------------------------------------------------------------
(* Bytes and strings. *)

Chars(str) == [i \in 1..Len(str) |-> SubSeq(str, i, i)]

RECURSIVE Str(_)
Str(cs) == IF cs = <<>> THEN "" ELSE cs[1] \o Str(Tail(cs))

UpperStr == "ABCDEFGHIJKLMNOPQRSTUVWXYZ"
LowerStr == "abcdefghijklmnopqrstuvwxyz"
DigitStr == "0123456789"

UpperSet == {SubSeq(UpperStr, i, i) : i \in 1..Len(UpperStr)}
LowerSet == {SubSeq(LowerStr, i, i) : i \in 1..Len(LowerStr)}
DigitSet == {SubSeq(DigitStr, i, i) : i \in 1..Len(DigitStr)}

\* str::to_lowercase on ASCII text, byte by byte.
to_lowercase ==
    [c \in UpperSet |->
        LET i == CHOOSE j \in 1..Len(UpperStr) : SubSeq(UpperStr, j, j) = c
        IN  SubSeq(LowerStr, i, i)]

lower(c) == IF c \in UpperSet THEN to_lowercase[c] ELSE c

LowerOf(str) == Str([i \in 1..Len(str) |-> lower(SubSeq(str, i, i))])

-----------------------------------------------------------------------------
(* Parse outcomes (nom::IResult, plus the abort of the process). *)

Done(p, v) == [t |-> "Done", p |-> p, v |-> v]
Error == [t |-> "Error", p |-> 0, v |-> <<>>]
Incomplete == [t |-> "Incomplete", p |-> 0, v |-> <<>>]
Panic == [t |-> "Panic", p |-> 0, v |-> <<>>]

\* The element of a singleton set.  Only({e : r \in {x}}) is e with the
\* outcome x of a parser bound to r: in a chain! each step is bound this way,
\* the first step on the last line.
Only(S) == CHOOSE x \in S : TRUE

-----------------------------------------------------------------------------
(* The nom combinators the grammar is written in.  The sources do not pin  *)
(* the nom release; releases differ in two places, and nom records which   *)
(* behaviour the build has:                                                *)
(*   nom.emptyDone     multispace, digit and alphanumeric on empty input   *)
(*                     succeed with an empty match (nom 1) or report       *)
(*                     Incomplete (nom 2);                                 *)
(*   nom.tailComplete  alt_complete! wraps its last branch in complete!,   *)
(*                     as it does every other branch, or leaves it bare.   *)
(***************************************************************************)

NomBuilds == [emptyDone : BOOLEAN, tailComplete : BOOLEAN]

\* tag!: the literal t at position p; Incomplete when the input ends inside it.
tag(s, p, t) ==
    LET len  == Len(s) - p + 1
        blen == Len(t)
        m    == IF len < blen THEN len ELSE blen
    IN  IF \E i \in 1..m : s[p + i - 1] # SubSeq(t, i, i) THEN Error
        ELSE IF m < blen THEN Incomplete
        ELSE Done(p + blen, t)

\* caseless_tag!: as tag!, both sides lowercased; yields the input's own bytes.
caseless_tag(s, p, t) ==
    LET len  == Len(s) - p + 1
        blen == Len(t)
        m    == IF len < blen THEN len ELSE blen
    IN  IF \E i \in 1..m : lower(s[p + i - 1]) # lower(SubSeq(t, i, i)) THEN Error
        ELSE IF m < blen THEN Incomplete
        ELSE Done(p + blen, Str(SubSeq(s, p, p + blen - 1)))

\* The first position at or after p whose byte is not in set.
RECURSIVE span(_, _, _)
span(s, p, set) ==
    IF p <= Len(s) /\ s[p] \in set THEN span(s, p + 1, set) ELSE p

\* One or more bytes of a class (the shape of multispace, digit, alphanumeric).
char_class(s, p, set) ==
    IF p > Len(s) THEN (IF nom.emptyDone THEN Done(p, <<>>) ELSE Incomplete)
    ELSE LET q == span(s, p, set)
         IN  IF q = p THEN Error ELSE Done(q, SubSeq(s, p, q - 1))

SpaceSet == {" ", "\t", "\r", "\n"}
AlphanumericSet == UpperSet \cup LowerSet \cup DigitSet

multispace(s, p) == char_class(s, p, SpaceSet)
digit(s, p) == char_class(s, p, DigitSet)
alphanumeric(s, p) == char_class(s, p, AlphanumericSet)

\* one_of!: one byte of set; Incomplete on empty input.
one_of(s, p, set) ==
    IF p > Len(s) THEN Incomplete
    ELSE IF s[p] \in set THEN Done(p + 1, s[p])
    ELSE Error

\* peek!: the outcome r of a parser run at p, consuming nothing.
peek(r, p) == IF r.t = "Done" THEN Done(p, r.v) ELSE r

\* complete!: Incomplete becomes an error.
complete(r) == IF r.t = "Incomplete" THEN Error ELSE r

\* opt!: an error becomes a match of nothing at p; Incomplete is passed on.
\* The value is <<v>> for Some(v) and <<>> for None.
opt(r, p) ==
    IF r.t = "Done" THEN Done(r.p, <<r.v>>)
    ELSE IF r.t = "Error" THEN Done(p, <<>>)
    ELSE r

\* alt_complete!: the outcomes rs of the branches, each run at the same
\* position, in order; the first branch that is Done wins.
\* (A branch that aborts the process ends the alternation as well.)
alt_complete(rs) ==
    LET n    == Len(rs)
        wins == {i \in 1..(n - 1) : complete(rs[i]).t \in {"Done", "Panic"}}
    IN  IF wins # {}
        THEN rs[CHOOSE i \in wins : \A j \in wins : i <= j]
        ELSE IF nom.tailComplete THEN complete(rs[n]) ELSE rs[n]

-----------------------------------------------------------------------------
(* keywords.rs *)

\* The reserved words, in the order of the alternatives.
Keywords ==
  <<
     "ABORT", "ACTION", "ADD", "AFTER", "ALL", "ALTER",
     "ANALYZE", "AND", "AS", "ASC", "ATTACH", "AUTOINCREMENT",
     "BEFORE", "BEGIN", "BETWEEN", "BY", "CASCADE", "CASE",
     "CAST", "CHECK", "COLLATE", "COLUMN", "COMMIT", "CONFLICT",
     "CONSTRAINT", "CREATE", "CROSS", "CURRENT_DATE", "CURRENT_TIME", "CURRENT_TIMESTAMP",
     "DATABASE", "DEFAULT", "DEFERRABLE", "DEFERRED", "DELETE", "DESC",
     "DETACH", "DISTINCT", "DROP", "EACH", "ELSE", "END",
     "ESCAPE", "EXCEPT", "EXCLUSIVE", "EXISTS", "EXPLAIN", "FAIL",
     "FOR", "FOREIGN", "FROM", "FULL", "GLOB", "GROUP",
     "HAVING", "IF", "IGNORE", "IMMEDIATE", "IN", "INDEX",
     "INDEXED", "INITIALLY", "INNER", "INSERT", "INSTEAD", "INTERSECT",
     "INTO", "IS", "ISNULL", "JOIN", "KEY", "LEFT",
     "LIKE", "LIMIT", "MATCH", "NATURAL", "NO", "NOT",
     "NOTNULL", "NULL", "OF", "OFFSET", "ON", "OR",
     "ORDER", "OUTER", "PLAN", "PRAGMA", "PRIMARY", "QUERY",
     "RAISE", "RECURSIVE", "REFERENCES", "REGEXP", "REINDEX", "RELEASE",
     "RENAME", "REPLACE", "RESTRICT", "RIGHT", "ROLLBACK", "ROW",
     "SAVEPOINT", "SELECT", "SET", "TABLE", "TEMP", "TEMPORARY",
     "THEN", "TO", "TRANSACTION", "TRIGGER", "UNION", "UNIQUE",
     "UPDATE", "USING", "VACUUM", "VALUES", "VIEW", "VIRTUAL",
     "WHEN", "WHERE", "WITH", "WITHOUT" >>
\* The bytes that may follow a keyword.
BoundarySet == {" ", "\n", ";", "(", "\t", ",", "="}

\* A boundary check that consumes the byte it looks at (one_of! without peek!).
keyword_boundary_consuming(s, p) == one_of(s, p, BoundarySet)

\* peek!(one_of!(" \n;(\t,=")): the byte after the keyword, left in place.
keyword_boundary(s, p) == peek(one_of(s, p, BoundarySet), p)

sql_keyword(s, p) ==
    complete(
        Only({ IF kw.t # "Done" THEN kw ELSE
        Only({ IF b.t # "Done" THEN b ELSE Done(b.p, kw.v)
             : b \in {keyword_boundary(s, kw.p)} })
             : kw \in {alt_complete([i \in 1..Len(Keywords) |->
                                        caseless_tag(s, p, Keywords[i])])} }))

-----------------------------------------------------------------------------
(* The parsers of common.rs that create.rs calls.  Their source is not     *)
(* part of the two files; they follow section 6 of the specification.      *)

IdentifierSet == AlphanumericSet \cup {"_"}

\* A bare identifier that is not a reserved word (the quoted forms of an
\* identifier are left out: no statement the model parses uses them).
sql_identifier(s, p) ==
    LET q == span(s, p, IdentifierSet)
    IN  IF q = p \/ sql_keyword(s, p).t = "Done"
        THEN Error
        ELSE Done(q, Str(SubSeq(s, p, q - 1)))

\* A column reference; the model keeps its name.
column_identifier(s, p) == sql_identifier(s, p)

\* name[.name][ AS alias]: a table with an optional alias (<<>> when absent).
table_reference(s, p) ==
    Only({ IF n.t # "Done" THEN n ELSE
    Only({ LET t  == IF d.t = "Done" THEN d ELSE n
               w1 == span(s, t.p, SpaceSet)
           IN
    Only({ LET w2 == IF kw.t = "Done" THEN span(s, kw.p, SpaceSet) ELSE 0
           IN
    Only({ IF al.t = "Done"
           THEN Done(al.p, [name |-> t.v, alias |-> <<al.v>>])
           ELSE Done(t.p, [name |-> t.v, alias |-> <<>>])
         : al \in {IF w1 > t.p /\ kw.t = "Done" /\ w2 > kw.p
                   THEN sql_identifier(s, w2) ELSE Error} })
         : kw \in {caseless_tag(s, w1, "as")} })
         : d \in {IF n.p <= Len(s) /\ s[n.p] = "."
                  THEN sql_identifier(s, n.p + 1) ELSE Error} })
         : n \in {sql_identifier(s, p)} })

\* One or more column references separated by commas.
RECURSIVE field_list_from(_, _, _)
field_list_from(s, p, acc) ==
    Only({ IF c.t # "Done" THEN (IF acc = <<>> THEN Error ELSE Done(p, acc))
           ELSE LET w1 == span(s, c.p, SpaceSet)
                IN  IF w1 <= Len(s) /\ s[w1] = ","
                    THEN field_list_from(s, span(s, w1 + 1, SpaceSet),
                                         Append(acc, c.v))
                    ELSE Done(c.p, Append(acc, c.v))
         : c \in {column_identifier(s, p)} })

field_list(s, p) == field_list_from(s, p, <<>>)

\* The ';' that ends a statement, with the whitespace around it.
statement_terminator(s, p) ==
    LET w == span(s, p, SpaceSet)
    IN  IF w <= Len(s) /\ s[w] = ";"
        THEN Done(span(s, w + 1, SpaceSet), ";")
        ELSE Error

-----------------------------------------------------------------------------
(* create.rs *)

U16Max == 65535
DefaultIntWidth == 32

digit_value(c) == CHOOSE n \in 0..9 : SubSeq(DigitStr, n + 1, n + 1) = c

\* u16::from_str on a digit sequence, most significant digit first, with the
\* accumulated value acc; -1 stands for Err (empty text, or overflow).
RECURSIVE u16_from_digits(_, _, _)
u16_from_digits(d, i, acc) ==
    IF i > Len(d) THEN acc
    ELSE LET next == acc * 10 + digit_value(d[i])
         IN  IF next > U16Max THEN -1 ELSE u16_from_digits(d, i + 1, next)

u16_from_str(d) == IF d = <<>> THEN -1 ELSE u16_from_digits(d, 1, 0)

\* A width parsed as a u8: it panics above 255.
len_as_u8(len) ==
    LET w == u16_from_str(len)
    IN  IF w > 255 THEN -1 ELSE w

\* len_as_u16: the width, or -1 where the function panics.
len_as_u16(len) == u16_from_str(len)

\* `multispace?` inside chain!.
opt_multispace(s, p) == opt(multispace(s, p), p)

\* delimited!(tag!("("), digit, tag!(")")): the digits between the parentheses.
width_clause(s, p) ==
    Only({ IF a.t # "Done" THEN a ELSE
    Only({ IF d.t # "Done" THEN d ELSE
    Only({ IF c.t # "Done" THEN c ELSE Done(c.p, d.v)
         : c \in {tag(s, d.p, ")")} })
         : d \in {digit(s, a.p)} })
         : a \in {tag(s, p, "(")} })

\* opt!(alt_complete!(caseless_tag!("unsigned") | caseless_tag!("signed")))
signedness(s, p) ==
    opt(alt_complete(<<caseless_tag(s, p, "unsigned"),
                       caseless_tag(s, p, "signed")>>), p)

\* opt!(caseless_tag!("binary"))
binary_marker(s, p) == opt(caseless_tag(s, p, "binary"), p)

\* A branch that is a type name alone (mediumtext, timestamp, tinyblob,
\* tinytext, blob, date, text).
plain_type(s, p, name, variant) ==
    Only({ IF a.t # "Done" THEN a ELSE Done(a.p, <<variant>>)
         : a \in {caseless_tag(s, p, name)} })

\* A branch with a required width: name, width, multispace?, modifier
\* (varchar and char take binary; tinyint and bigint take a signedness).
sized_type(s, p, name, variant, modifier) ==
    Only({ IF a.t # "Done" THEN a ELSE
    Only({ IF len.t # "Done" THEN len ELSE
    Only({ IF ws.t # "Done" THEN ws ELSE
    Only({ IF md.t # "Done" THEN md ELSE
           LET w == len_as_u16(len.v)
           IN  IF w < 0 THEN Panic ELSE Done(md.p, <<variant, w>>)
         : md \in {IF modifier = "binary" THEN binary_marker(s, ws.p)
                   ELSE signedness(s, ws.p)} })
         : ws \in {opt_multispace(s, len.p)} })
         : len \in {width_clause(s, a.p)} })
         : a \in {caseless_tag(s, p, name)} })

\* A branch without a width: name, multispace?, signedness (double, real).
unsized_type(s, p, name, variant) ==
    Only({ IF a.t # "Done" THEN a ELSE
    Only({ IF ws.t # "Done" THEN ws ELSE
    Only({ IF md.t # "Done" THEN md ELSE Done(md.p, <<variant>>)
         : md \in {signedness(s, ws.p)} })
         : ws \in {opt_multispace(s, a.p)} })
         : a \in {caseless_tag(s, p, name)} })

\* An int branch that builds the default width whatever width is given.
int_width_ignored(len) == DefaultIntWidth

\* The value the int branch builds from its optional width: 32 by default.
int_width(len) ==
    IF len = <<>> THEN DefaultIntWidth ELSE len_as_u16(len[1])

\* The int branch: the width is optional.
int_type(s, p) ==
    Only({ IF a.t # "Done" THEN a ELSE
    Only({ IF len.t # "Done" THEN len ELSE
    Only({ IF ws.t # "Done" THEN ws ELSE
    Only({ IF md.t # "Done" THEN md ELSE
           LET w == int_width(len.v)
           IN  IF w < 0 THEN Panic ELSE Done(md.p, <<"Int", w>>)
         : md \in {signedness(s, ws.p)} })
         : ws \in {opt_multispace(s, len.p)} })
         : len \in {opt(width_clause(s, a.p), a.p)} })
         : a \in {caseless_tag(s, p, "int")} })

type_identifier(s, p) ==
    alt_complete(<<
        plain_type(s, p, "mediumtext", "Mediumtext"),
        plain_type(s, p, "timestamp", "Timestamp"),
        plain_type(s, p, "tinyblob", "Tinyblob"),
        plain_type(s, p, "tinytext", "Tinytext"),
        sized_type(s, p, "varchar", "Varchar", "binary"),
        sized_type(s, p, "tinyint", "Tinyint", "signed"),
        sized_type(s, p, "bigint", "Bigint", "signed"),
        unsized_type(s, p, "double", "Double"),
        plain_type(s, p, "blob", "Blob"),
        plain_type(s, p, "date", "Date"),
        unsized_type(s, p, "real", "Real"),
        plain_type(s, p, "text", "Text"),
        sized_type(s, p, "char", "Char", "binary"),
        int_type(s, p) >>)

\* delimited!(tag!("("), field_list, tag!(")"))
key_columns(s, p) ==
    Only({ IF a.t # "Done" THEN a ELSE
    Only({ IF f.t # "Done" THEN f ELSE
    Only({ IF c.t # "Done" THEN c ELSE Done(c.p, f.v)
         : c \in {tag(s, f.p, ")")} })
         : f \in {field_list(s, a.p)} })
         : a \in {tag(s, p, "(")} })

\* chain!(multispace ~ caseless_tag!(t)): the autoincrement after a primary key.
spaced_tag(s, p, t) ==
    Only({ IF ws.t # "Done" THEN ws ELSE caseless_tag(s, ws.p, t)
         : ws \in {multispace(s, p)} })

primary_key(s, p) ==
    Only({ IF a.t # "Done" THEN a ELSE
    Only({ IF ws.t # "Done" THEN ws ELSE
    Only({ IF columns.t # "Done" THEN columns ELSE
    Only({ IF ai.t # "Done" THEN ai ELSE Done(ai.p, <<"PrimaryKey", columns.v>>)
         : ai \in {opt(complete(spaced_tag(s, columns.p, "autoincrement")),
                      columns.p)} })
         : columns \in {key_columns(s, ws.p)} })
         : ws \in {opt_multispace(s, a.p)} })
         : a \in {caseless_tag(s, p, "primary key")} })

\* A unique key branch that drops the key's name.
unique_key_unnamed(name, columns) == <<"UniqueKey", <<>>, columns>>

\* The value the unique key branch builds: the name is <<n>> or <<>>.
unique_key_value(name, columns) ==
    IF name # <<>> THEN <<"UniqueKey", <<name[1]>>, columns>>
    ELSE <<"UniqueKey", <<>>, columns>>

unique_key(s, p) ==
    Only({ IF a.t # "Done" THEN a ELSE
    Only({ IF ws.t # "Done" THEN ws ELSE
    Only({ IF name.t # "Done" THEN name ELSE
    Only({ IF ws2.t # "Done" THEN ws2 ELSE
    Only({ IF columns.t # "Done" THEN columns ELSE
           Done(columns.p, unique_key_value(name.v, columns.v))
         : columns \in {key_columns(s, ws2.p)} })
         : ws2 \in {opt_multispace(s, name.p)} })
         : name \in {opt(sql_identifier(s, ws.p), ws.p)} })
         : ws \in {opt_multispace(s, a.p)} })
         : a \in {caseless_tag(s, p, "unique key")} })

key_specification(s, p) ==
    alt_complete(<<primary_key(s, p), unique_key(s, p)>>)

\* chain!(multispace? ~ T ~ multispace?), T a tag! or (caseless) a caseless_tag!.
spaced_clause(s, p, t, caseless) ==
    Only({ IF ws.t # "Done" THEN ws ELSE
    Only({ IF a.t # "Done" THEN a ELSE opt_multispace(s, a.p)
         : a \in {IF caseless THEN caseless_tag(s, ws.p, t)
                  ELSE tag(s, ws.p, t)} })
         : ws \in {opt_multispace(s, p)} })

\* opt!(complete!(chain!(multispace? ~ tag!(",") ~ multispace?)))
separator(s, p) == opt(complete(spaced_clause(s, p, ",", FALSE)), p)

\* One element of key_specification_list.
key_item(s, p) ==
    complete(
        Only({ IF key.t # "Done" THEN key ELSE
        Only({ IF sep.t # "Done" THEN sep ELSE Done(sep.p, key.v)
             : sep \in {separator(s, key.p)} })
             : key \in {key_specification(s, p)} }))

\* chain!(multispace ~ type_identifier ~ multispace?)
field_type(s, p) ==
    Only({ IF ws.t # "Done" THEN ws ELSE
    Only({ IF ty.t # "Done" THEN ty ELSE opt_multispace(s, ty.p)
         : ty \in {type_identifier(s, ws.p)} })
         : ws \in {multispace(s, p)} })

\* delimited!(tag!("'"), alphanumeric, tag!("'"))
quoted_value(s, p) ==
    Only({ IF a.t # "Done" THEN a ELSE
    Only({ IF v.t # "Done" THEN v ELSE
    Only({ IF c.t # "Done" THEN c ELSE Done(c.p, v.v)
         : c \in {tag(s, v.p, "'")} })
         : v \in {alphanumeric(s, a.p)} })
         : a \in {tag(s, p, "'")} })

\* alt_complete!(delimited!(tag!("'"), alphanumeric, tag!("'")) | digit | tag!("''"))
default_value(s, p) ==
    alt_complete(<<quoted_value(s, p), digit(s, p), tag(s, p, "''")>>)

\* chain!(multispace? ~ caseless_tag!("default") ~ multispace ~ value ~ multispace?)
default_clause(s, p) ==
    Only({ IF ws.t # "Done" THEN ws ELSE
    Only({ IF a.t # "Done" THEN a ELSE
    Only({ IF ws2.t # "Done" THEN ws2 ELSE
    Only({ IF v.t # "Done" THEN v ELSE opt_multispace(s, v.p)
         : v \in {default_value(s, ws2.p)} })
         : ws2 \in {multispace(s, a.p)} })
         : a \in {caseless_tag(s, ws.p, "default")} })
         : ws \in {opt_multispace(s, p)} })

\* One element of field_specification_list: the column name, then the
\* optional type, NOT NULL, AUTO_INCREMENT, DEFAULT and separator.
field_item(s, p) ==
    complete(
        Only({ IF fieldname.t # "Done" THEN fieldname ELSE
        Only({ IF fieldtype.t # "Done" THEN fieldtype ELSE
        Only({ IF nn.t # "Done" THEN nn ELSE
        Only({ IF ai.t # "Done" THEN ai ELSE
        Only({ IF df.t # "Done" THEN df ELSE
        Only({ IF sep.t # "Done" THEN sep ELSE Done(sep.p, fieldname.v)
             : sep \in {separator(s, df.p)} })
             : df \in {opt(complete(default_clause(s, ai.p)), ai.p)} })
             : ai \in {opt(complete(spaced_clause(s, nn.p, "auto_increment", TRUE)),
                          nn.p)} })
             : nn \in {opt(complete(spaced_clause(s, fieldtype.p, "not null", TRUE)),
                          fieldtype.p)} })
             : fieldtype \in {opt(complete(field_type(s, fieldname.p)), fieldname.p)} })
             : fieldname \in {column_identifier(s, p)} }))

list_item(kind, s, p) ==
    IF kind = "field" THEN field_item(s, p) ELSE key_item(s, p)

\* The loop of many1! after its first element: it ends at the end of the
\* input, at an element that fails, or at one that consumes nothing.
RECURSIVE many1_loop(_, _, _, _)
many1_loop(kind, s, p, acc) ==
    IF p > Len(s) THEN Done(p, acc)
    ELSE Only({ IF r.t = "Error" THEN Done(p, acc)
                ELSE IF r.t # "Done" THEN r
                ELSE IF r.p = p THEN Done(p, acc)
                ELSE many1_loop(kind, s, r.p, Append(acc, r.v))
              : r \in {list_item(kind, s, p)} })

\* A many1! that stops after its first element.
many1_once(kind, s, p) ==
    Only({ IF r.t # "Done" THEN r ELSE Done(r.p, <<r.v>>)
         : r \in {list_item(kind, s, p)} })

many1(kind, s, p) ==
    Only({ IF r.t # "Done" THEN r
           ELSE IF r.p > Len(s) THEN Done(r.p, <<r.v>>)
           ELSE many1_loop(kind, s, r.p, <<r.v>>)
         : r \in {list_item(kind, s, p)} })

key_specification_list(s, p) == many1("key", s, p)

field_specification_list(s, p) == many1("field", s, p)

\* chain!(caseless_tag!("type") ~ multispace? ~ tag!("=") ~ multispace? ~ alphanumeric)
\* and the same with pack_keys and alt_complete!(tag!("0") | tag!("1")).
table_option(s, p, name) ==
    Only({ IF a.t # "Done" THEN a ELSE
    Only({ IF eq.t # "Done" THEN eq
           ELSE IF name = "type" THEN alphanumeric(s, eq.p)
           ELSE alt_complete(<<tag(s, eq.p, "0"), tag(s, eq.p, "1")>>)
         : eq \in {spaced_clause(s, a.p, "=", FALSE)} })
         : a \in {caseless_tag(s, p, name)} })

\* The chain! of creation, with the closure that builds the statement: the
\* assert! on the alias aborts the process.
creation_chain(s, p) ==
    Only({ IF kw1.t # "Done" THEN kw1 ELSE
    Only({ IF ws1.t # "Done" THEN ws1 ELSE
    Only({ IF kw2.t # "Done" THEN kw2 ELSE
    Only({ IF ws2.t # "Done" THEN ws2 ELSE
    Only({ IF table.t # "Done" THEN table ELSE
    Only({ IF ws3.t # "Done" THEN ws3 ELSE
    Only({ IF open.t # "Done" THEN open ELSE
    Only({ IF ws3b.t # "Done" THEN ws3b ELSE
    Only({ IF fields.t # "Done" THEN fields ELSE
    Only({ IF ws4.t # "Done" THEN ws4 ELSE
    Only({ IF keys.t # "Done" THEN keys ELSE
    Only({ IF close.t # "Done" THEN close ELSE
    Only({ IF ty.t # "Done" THEN ty ELSE
    Only({ IF ws5.t # "Done" THEN ws5 ELSE
    Only({ IF pk.t # "Done" THEN pk ELSE
    Only({ IF term.t # "Done" THEN term
           ELSE IF table.v.alias # <<>> THEN Panic
           ELSE Done(term.p, [table  |-> table.v,
                              fields |-> fields.v,
                              keys   |-> keys.v])
         : term \in {statement_terminator(s, pk.p)} })
         : pk \in {opt(complete(table_option(s, ws5.p, "pack_keys")), ws5.p)} })
         : ws5 \in {opt_multispace(s, ty.p)} })
         : ty \in {opt(complete(table_option(s, close.p, "type")), close.p)} })
         : close \in {spaced_clause(s, keys.p, ")", FALSE)} })
         : keys \in {opt(key_specification_list(s, ws4.p), ws4.p)} })
         : ws4 \in {opt_multispace(s, fields.p)} })
         : fields \in {field_specification_list(s, ws3b.p)} })
         : ws3b \in {opt_multispace(s, open.p)} })
         : open \in {tag(s, ws3.p, "(")} })
         : ws3 \in {multispace(s, table.p)} })
         : table \in {table_reference(s, ws2.p)} })
         : ws2 \in {multispace(s, kw2.p)} })
         : kw2 \in {caseless_tag(s, ws1.p, "table")} })
         : ws1 \in {multispace(s, kw1.p)} })
         : kw1 \in {caseless_tag(s, p, "create")} })

\* creation without its complete! wrapper.
creation_without_complete(s, p) == creation_chain(s, p)

creation(s, p) == complete(creation_chain(s, p))


-----------------------------------------------------------------------------
(* The inputs the parsers are called on. *)

MaxFields == 2
MaxKeys == 2

to_uppercase ==
    [c \in LowerSet |->
        LET i == CHOOSE j \in 1..Len(LowerStr) : SubSeq(LowerStr, j, j) = c
        IN  SubSeq(UpperStr, i, i)]

UpperOf(str) ==
    Str([i \in 1..Len(str) |->
            LET c == SubSeq(str, i, i)
            IN  IF c \in LowerSet THEN to_uppercase[c] ELSE c])

\* Upper case at the odd positions, lower case at the even ones.
MixedOf(str) ==
    Str([i \in 1..Len(str) |->
            LET c == SubSeq(str, i, i)
            IN  IF i % 2 = 1 THEN c ELSE lower(c)])

\* The decimal text of a natural number.
RECURSIVE Decimal(_)
Decimal(n) ==
    IF n < 10 THEN SubSeq(DigitStr, n + 1, n + 1)
    ELSE Decimal(n \div 10) \o SubSeq(DigitStr, (n % 10) + 1, (n % 10) + 1)

RECURSIVE Join(_, _)
Join(texts, sep) ==
    IF texts = <<>> THEN ""
    ELSE IF Len(texts) = 1 THEN texts[1]
    ELSE texts[1] \o sep \o Join(Tail(texts), sep)

KeywordSet == {Keywords[i] : i \in 1..Len(Keywords)}

\* sql_keyword: a reserved word in one letter case, then nothing or one byte.
KeywordFollowers == {"", " ", "\n", "\t", ";", "(", ",", "=", ")", "x", "_"}

KeywordArgs ==
    [word : KeywordSet, case : {"upper", "lower", "mixed"}, follow : KeywordFollowers]

KeywordText(a) ==
    (CASE a.case = "upper" -> a.word
       [] a.case = "lower" -> LowerOf(a.word)
       [] OTHER -> MixedOf(a.word)) \o a.follow

\* type_identifier: a type name, a width clause, a modifier, a following byte.
TypeVariant ==
    [n \in {"mediumtext", "timestamp", "tinyblob", "tinytext", "varchar",
            "tinyint", "bigint", "double", "blob", "date", "real", "text",
            "char", "int"} |->
        CASE n = "mediumtext" -> "Mediumtext" [] n = "timestamp" -> "Timestamp"
          [] n = "tinyblob" -> "Tinyblob" [] n = "tinytext" -> "Tinytext"
          [] n = "varchar" -> "Varchar" [] n = "tinyint" -> "Tinyint"
          [] n = "bigint" -> "Bigint" [] n = "double" -> "Double"
          [] n = "blob" -> "Blob" [] n = "date" -> "Date"
          [] n = "real" -> "Real" [] n = "text" -> "Text"
          [] n = "char" -> "Char" [] OTHER -> "Int"]

TypeNames == DOMAIN TypeVariant
SizedNames == {"char", "varchar", "int", "bigint", "tinyint"}

\* A width clause: none, the decimal text of a number, or some other text.
WidthValues == {0, 11, 255, 65535, 65536, 99999}
Widths ==
    {<<"none", 0, "">>} \cup {<<"num", n, "">> : n \in WidthValues}
        \cup {<<"text", 0, "x">>}

WidthText(w) ==
    CASE w[1] = "none" -> ""
      [] w[1] = "num" -> "(" \o Decimal(w[2]) \o ")"
      [] OTHER -> "(" \o w[3] \o ")"

TypeArgs ==
    [name : TypeNames, upper : BOOLEAN, width : Widths, space : BOOLEAN,
     modifier : {"", "unsigned", "signed", "binary"}, follow : {"", ",", ")"}]

TypeText(a) ==
    (IF a.upper THEN UpperOf(a.name) ELSE a.name) \o WidthText(a.width)
        \o (IF a.space THEN " " ELSE "") \o a.modifier \o a.follow

\* Column definitions: each has a name and any of the four optional clauses.
ClauseSets == SUBSET {"type", "notnull", "autoinc", "default"}
FieldLists == UNION {[1..n -> ClauseSets] : n \in 1..MaxFields}
TypedFields == {[i \in 1..n |-> {"type"}] : n \in 1..MaxFields}

FieldNames == <<"id", "name", "email", "age">>
FieldDefaults == <<"'0'", "''", "0", "'abc'">>
FieldType(i, width) ==
    CASE i = 1 -> "bigint(" \o width \o ")"
      [] i = 2 -> "varchar(255) binary"
      [] i = 3 -> "int"
      [] OTHER -> "text"

FieldText(i, c, width) ==
    FieldNames[i]
        \o (IF "type" \in c THEN " " \o FieldType(i, width) ELSE "")
        \o (IF "notnull" \in c THEN " NOT NULL" ELSE "")
        \o (IF "autoinc" \in c THEN " auto_increment" ELSE "")
        \o (IF "default" \in c THEN " default " \o FieldDefaults[i] ELSE "")

FieldsText(fields, sep, width) ==
    Join([i \in 1..Len(fields) |-> FieldText(i, fields[i], width)], sep)

DeclaredNames(fields) == [i \in 1..Len(fields) |-> FieldNames[i]]

\* field_specification_list: the definitions, what separates them, what follows.
FieldListArgs ==
    [fields : FieldLists, sep : {", ", ",", " "}, end : {",", ")", ""}]

FieldListText(a) == FieldsText(a.fields, a.sep, "20") \o a.end

\* Key clauses: <<"primary", <<>>, columns>> or <<"unique", name, columns>>.
KeyChoices ==
    {<<"primary", <<>>, <<"id">>>>, <<"unique", <<"uk">>, <<"id", "name">>>>,
     <<"unique", <<>>, <<"name">>>>}
KeyLists == UNION {[1..n -> KeyChoices] : n \in 0..MaxKeys}

KeyText(k) ==
    IF k[1] = "primary" THEN "PRIMARY KEY (" \o Join(k[3], ", ") \o ")"
    ELSE "UNIQUE KEY " \o (IF k[2] # <<>> THEN k[2][1] \o " " ELSE "")
            \o "(" \o Join(k[3], ", ") \o ")"

Tails == {"", " TYPE=MyISAM", " PACK_KEYS=1", " TYPE=MyISAM PACK_KEYS=0"}

\* creation: a statement.  Either its column definitions vary, or its keys
\* and trailing clauses, or it has an alias or a width that does not fit.
StatementShapes ==
    [fields : FieldLists, keys : {<<>>}, tail : {""}, alias : {""}, width : {"20"}]
    \cup
    [fields : TypedFields, keys : KeyLists, tail : Tails, alias : {""}, width : {"20"}]
    \cup
    [fields : TypedFields, keys : {<<>>}, tail : {""}, alias : {"", " AS u"},
     width : {"20", "99999"}]

StatementText(a) ==
    "CREATE TABLE users" \o a.alias \o " ("
        \o FieldsText(a.fields, ", ", a.width)
        \o (IF a.keys = <<>> THEN ""
            ELSE ", " \o Join([i \in 1..Len(a.keys) |-> KeyText(a.keys[i])], ", "))
        \o ")" \o a.tail \o ";"

\* A statement with no alias and with widths that fit.
ValidStatement(a) == a.alias = "" /\ a.width = "20"

\* The statements whose strict prefixes creation is called on.
CutShapes ==
    {a \in StatementShapes :
        /\ ValidStatement(a)
        /\ a.fields = <<{"type"}>>
        /\ Len(a.keys) <= 1
        /\ a.tail \in {"", " TYPE=MyISAM PACK_KEYS=0"}}

-----------------------------------------------------------------------------
(* The calls: one parser is called on one input, and returns. *)

Init ==
    /\ nom \in NomBuilds
    /\ pc = "idle"
    /\ parser = "none"
    /\ arg = <<>>
    /\ input = ""
    /\ res = Error

Call(name, a, text, r) ==
    /\ pc = "idle"
    /\ pc' = "done"
    /\ parser' = name
    /\ arg' = a
    /\ input' = text
    /\ res' = r
    /\ UNCHANGED nom

Call_sql_keyword ==
    \E a \in KeywordArgs :
        Call("sql_keyword", a, KeywordText(a), sql_keyword(Chars(KeywordText(a)), 1))

Call_type_identifier ==
    \E a \in TypeArgs :
        Call("type_identifier", a, TypeText(a), type_identifier(Chars(TypeText(a)), 1))

Call_field_specification_list ==
    \E a \in FieldListArgs :
        Call("field_specification_list", a, FieldListText(a),
             field_specification_list(Chars(FieldListText(a)), 1))

\* creation on a whole statement: cut is the statement's length.
Call_creation ==
    \E a \in StatementShapes :
        LET text == StatementText(a)
        IN  Call("creation", [stmt |-> a, cut |-> Len(text)], text,
                 creation(Chars(text), 1))

\* creation on the first cut bytes of a statement, the input ending there.
Call_creation_cut ==
    \E a \in CutShapes :
        \E cut \in 0..(Len(StatementText(a)) - 1) :
            LET text == SubSeq(StatementText(a), 1, cut)
            IN  Call("creation", [stmt |-> a, cut |-> cut], text,
                     creation(Chars(text), 1))

Return ==
    /\ pc = "done"
    /\ pc' = "idle"
    /\ parser' = "none"
    /\ arg' = <<>>
    /\ input' = ""
    /\ res' = Error
    /\ UNCHANGED nom

Next ==
    \/ Call_sql_keyword
    \/ Call_type_identifier
    \/ Call_field_specification_list
    \/ Call_creation
    \/ Call_creation_cut
    \/ Return

Spec == Init /\ [][Next]_vars

NextKeyword == Call_sql_keyword \/ Return
SpecKeyword == Init /\ [][NextKeyword]_vars

NextType == Call_type_identifier \/ Return
SpecType == Init /\ [][NextType]_vars

NextFields == Call_field_specification_list \/ Return
SpecFields == Init /\ [][NextFields]_vars

NextCreate == Call_creation \/ Call_creation_cut \/ Return
SpecCreate == Init /\ [][NextCreate]_vars

-----------------------------------------------------------------------------
(* Properties. *)

\* The state after a call of the named parser.
Called(name) == pc = "done" /\ parser = name

\* The reserved word has another reserved word as a proper prefix.
HasPrefixKeyword(word) ==
    \E k \in KeywordSet :
        Len(k) < Len(word) /\ SubSeq(word, 1, Len(k)) = k

\* sql_keyword matched the whole word and left what follows it in place.
MatchedWord(word) ==
    /\ res.t = "Done"
    /\ res.p = Len(word) + 1
    /\ UpperOf(res.v) = word

\* C1 (as stated): a reserved word that has another reserved word as a proper
\* prefix, followed by a boundary byte, is matched by sql_keyword, which
\* returns the longer word: sql_keyword("INTO ") matches INTO.
C1_LongerWordMatched ==
    (Called("sql_keyword") /\ HasPrefixKeyword(arg.word)
        /\ arg.follow \in BoundarySet)
    => MatchedWord(arg.word)

\* The width clause of the call's type text is a number above 65535 or is
\* not made of digits.
MalformedWidth(a) ==
    \/ a.width[1] = "text"
    \/ a.width[1] = "num" /\ a.width[2] > U16Max

\* C2 (as stated): type_identifier on a width-bearing type whose width exceeds
\* 65535 or is not made of digits returns a failure: it does not abort the
\* process and does not yield a type with a default width.
C2_MalformedWidthFails ==
    (Called("type_identifier") /\ arg.name \in SizedNames /\ MalformedWidth(arg))
    => res.t = "Error"

\* C3 (as stated): creation on a statement whose table reference carries an
\* alias (and whose widths fit) returns a failure: it returns no statement
\* and does not abort.
C3_AliasFails ==
    (Called("creation") /\ arg.cut = Len(StatementText(arg.stmt))
        /\ arg.stmt.alias # "" /\ arg.stmt.width = "20")
    => res.t = "Error"

\* The call's type text is a width-bearing name with a width from 0 to 65535.
SizedWithWidth(a) ==
    a.name \in SizedNames /\ a.width[1] = "num" /\ a.width[2] <= U16Max

\* A byte other than whitespace follows the type name and width clause.
TypeFollowed(a) == a.modifier # "" \/ a.follow # ""

\* C4 (amended): for a width w from 0 to 65535, type_identifier on a
\* width-bearing type name and "(w)", in either letter case, followed by a
\* modifier or by a ',' or ')' byte, yields that type's variant carrying exactly
\* w, whichever modifier follows and whether or not one does.
C4_WidthCarried ==
    (Called("type_identifier") /\ SizedWithWidth(arg) /\ TypeFollowed(arg))
    => (res.t = "Done" /\ res.v = <<TypeVariant[arg.name], arg.width[2]>>)

\* C4, witness: VARCHAR(65535) BINARY was parsed and yielded Varchar(65535).
C4_Witness ==
    /\ Called("type_identifier")
    /\ arg.name = "varchar" /\ arg.upper
    /\ arg.width = <<"num", U16Max, "">>
    /\ arg.modifier = "binary" /\ arg.space
    /\ res.t = "Done" /\ res.v = <<"Varchar", U16Max>>

\* C4 (as stated): the same with nothing required after the width clause, so
\* that "VARCHAR(w)" as the whole input yields Varchar(w).
C4_AsStated ==
    (Called("type_identifier") /\ SizedWithWidth(arg))
    => (res.t = "Done" /\ res.v = <<TypeVariant[arg.name], arg.width[2]>>)

\* C5 (amended): INT followed by a modifier or by a ',' or ')' byte yields
\* Int(32), and INT(w) so followed yields Int(w), with or without UNSIGNED or
\* SIGNED; char, varchar, bigint and tinyint without a width clause never
\* yield a type.
C5_IntWidth ==
    Called("type_identifier") =>
        /\ (arg.name = "int" /\ arg.width[1] = "none" /\ TypeFollowed(arg))
            => (res.t = "Done" /\ res.v = <<"Int", DefaultIntWidth>>)
        /\ (arg.name = "int" /\ SizedWithWidth(arg) /\ TypeFollowed(arg))
            => (res.t = "Done" /\ res.v = <<"Int", arg.width[2]>>)
        /\ (arg.name \in SizedNames \ {"int"} /\ arg.width[1] = "none")
            => res.t # "Done"

\* C5, witness: "INT(11) unsigned" was parsed and yielded Int(11).
C5_Witness ==
    /\ Called("type_identifier")
    /\ arg.name = "int" /\ arg.upper
    /\ arg.width = <<"num", 11, "">>
    /\ arg.modifier = "unsigned" /\ arg.space
    /\ res.t = "Done" /\ res.v = <<"Int", 11>>

\* C5 (as stated): INT as the whole input yields Int(32), and INT(w) as the
\* whole input yields Int(w).
C5_AsStated ==
    (Called("type_identifier") /\ arg.name = "int" /\ arg.follow = ""
        /\ arg.modifier = "" /\ ~arg.space
        /\ (arg.width[1] = "none" \/ SizedWithWidth(arg)))
    => (res.t = "Done"
        /\ res.v = <<"Int", IF arg.width[1] = "none" THEN DefaultIntWidth
                            ELSE arg.width[2]>>)

\* creation was called on a whole statement that has no alias and whose
\* widths fit.
ParsedValid ==
    /\ Called("creation")
    /\ arg.cut = Len(StatementText(arg.stmt))
    /\ ValidStatement(arg.stmt)

\* C6 (confirmed): creation on a valid CREATE TABLE statement returns a
\* statement whose fields are the declared columns, as many and in the same
\* order, whichever of the optional clauses each column has and whichever
\* TYPE= and PACK_KEYS= clauses end the statement.
C6_FieldsAsDeclared ==
    ParsedValid
    => (res.t = "Done" /\ res.v.fields = DeclaredNames(arg.stmt.fields))

\* C6, witness: a statement of two columns, each with a type, NOT NULL,
\* AUTO_INCREMENT and a DEFAULT, was parsed and returned both columns.
C6_Witness ==
    /\ ParsedValid
    /\ Len(arg.stmt.fields) = 2
    /\ \A i \in 1..2 : arg.stmt.fields[i] = {"type", "notnull", "autoinc", "default"}
    /\ res.t = "Done" /\ res.v.fields = <<"id", "name">>

\* The TableKey a key clause stands for.
DeclaredKey(k) ==
    IF k[1] = "primary" THEN <<"PrimaryKey", k[3]>>
    ELSE <<"UniqueKey", k[2], k[3]>>

\* C7 (confirmed): the keys of the statement creation returns are None (<<>>)
\* when the statement has no key clause, and otherwise Some (a one-element
\* tuple) of the list of its key clauses in order, PRIMARY KEY (cols) as
\* PrimaryKey(cols), UNIQUE KEY name (cols) as UniqueKey(Some(name), cols),
\* UNIQUE KEY (cols) as UniqueKey(None, cols); keys is never Some of an empty
\* list.
C7_KeysAsDeclared ==
    ParsedValid
    => /\ res.t = "Done"
       /\ res.v.keys =
            IF arg.stmt.keys = <<>> THEN <<>>
            ELSE << [i \in 1..Len(arg.stmt.keys) |-> DeclaredKey(arg.stmt.keys[i])] >>
       /\ res.v.keys # << <<>> >>

\* C7, witness: a statement with a primary key and a named unique key was
\* parsed and returned both keys.
C7_Witness ==
    /\ ParsedValid
    /\ arg.stmt.keys = << <<"primary", <<>>, <<"id">>>>,
                          <<"unique", <<"uk">>, <<"id", "name">>>> >>
    /\ res.t = "Done"
    /\ res.v.keys = << << <<"PrimaryKey", <<"id">>>>,
                          <<"UniqueKey", <<"uk">>, <<"id", "name">>>> >> >>

\* C8 (as stated): field_specification_list takes two column definitions only
\* when a comma separates them: definitions separated by whitespace alone are
\* not returned as the fields declared.
C8_CommaRequired ==
    (Called("field_specification_list") /\ arg.sep = " "
        /\ Len(arg.fields) >= 2)
    => ~(res.t = "Done" /\ res.v = DeclaredNames(arg.fields))

\* creation was called on a statement of CutShapes cut short.
ParsedCut ==
    /\ Called("creation")
    /\ arg.cut < Len(StatementText(arg.stmt))

\* C9 (amended): creation on a strict prefix of a valid CREATE TABLE statement
\* returns a failure, never Incomplete: the parser is wrapped in complete!.
C9_CutIsFailure == ParsedCut => res.t = "Error"

\* C9, witness: creation was called on a statement cut inside the table body
\* and returned a failure.
C9_Witness ==
    /\ ParsedCut
    /\ input = "CREATE TABLE users (id bigint(2"
    /\ res.t = "Error"

\* C9 (as stated): creation on a strict prefix of a valid CREATE TABLE
\* statement reports Incomplete.
C9_AsStated == ParsedCut => res.t = "Incomplete"

\* C10 (amended): sql_keyword on a reserved word that has no reserved word as
\* a proper prefix, in any letter case, accepts it exactly when a byte of the
\* boundary set follows, and leaves that byte in place; it rejects the word
\* when any other byte follows and when the input ends after the word.
C10_BoundaryDecides ==
    (Called("sql_keyword") /\ ~HasPrefixKeyword(arg.word))
    => IF arg.follow \in BoundarySet THEN MatchedWord(arg.word)
       ELSE res.t = "Error"

\* C10, witness: "SeLeCt(" was parsed; SELECT was accepted and the '(' left.
C10_Witness ==
    /\ Called("sql_keyword")
    /\ arg.word = "SELECT" /\ arg.case = "mixed" /\ arg.follow = "("
    /\ res.t = "Done" /\ res.p = 7 /\ res.v = "SeLeCt"

\* C10 (as stated): the word is accepted as well when the input ends after it.
C10_AsStated ==
    (Called("sql_keyword") /\ ~HasPrefixKeyword(arg.word))
    => IF arg.follow \in BoundarySet \cup {""} THEN MatchedWord(arg.word)
       ELSE res.t = "Error"

====
